---- MODULE Spec2Model ----
(***************************************************************************)
(* A model of the Bittrex REST client (src/src/rest-client.ts):            *)
(* RestClient's constructor, the signed request executor RestClient.http,  *)
(* the endpoint methods built on it and the error classes it throws.       *)
(* Spec drives http directly and WrapperSpec the endpoint methods; in      *)
(* CallerSpec the caller keeps its options and params objects between      *)
(* calls, and in LoggerSpec the logger may fail.                           *)
(* JavaScript values are tagged records,                                   *)
(* strings are TLA+ strings, objects are functions from keys to values     *)
(* and ordered objects (query parameters) are sequences of key/value pairs.*)
(***************************************************************************)
EXTENDS Integers, Sequences, FiniteSets, Bags, TLC

\* ------------------------------------------------------------------------
\* Bounds of the model
\* ------------------------------------------------------------------------

\* Number of activations of RestClient.http that may be in flight at once.
MaxCalls == 2

\* Number of RestClient instances that may be constructed.
MaxClients == 2

\* Number of buffers the random generator yields in one behaviour.
MaxDraws == 2

\* Number of calls of wrapper methods that may be in flight at once.
MaxWrapperCalls == 1

\* ------------------------------------------------------------------------
\* JavaScript values
\* ------------------------------------------------------------------------

Undef == [t |-> "undefined"]

Null == [t |-> "null"]

Str(s) == [t |-> "string", s |-> s]

Num(n) == [t |-> "number", n |-> n]

Bool(b) == [t |-> "boolean", b |-> b]

\* A plain object: a function from property names to JavaScript values.
Obj(o) == [t |-> "object", o |-> o]

\* An array of JavaScript values.
Arr(a) == [t |-> "array", a |-> a]

\* ToBoolean, as applied by `if (x)` and `x || y`.
Truthy(v) ==
  CASE v.t = "undefined" -> FALSE
    [] v.t = "null"      -> FALSE
    [] v.t = "string"    -> v.s # ""
    [] v.t = "number"    -> v.n # 0
    [] v.t = "boolean"   -> v.b
    [] OTHER             -> TRUE

\* ToString, as applied by template literals and by Error's constructor.
ToStr(v) ==
  CASE v.t = "undefined" -> "undefined"
    [] v.t = "null"      -> "null"
    [] v.t = "string"    -> v.s
    [] v.t = "number"    -> ToString(v.n)
    [] v.t = "boolean"   -> (IF v.b THEN "true" ELSE "false")
    [] v.t = "error"     -> (IF v.message = "" THEN v.name
                             ELSE v.name \o ": " \o v.message)
    [] OTHER             -> "[object Object]"

\* Can a property be read off the value (anything but null and undefined)?
Readable(v) == v.t \notin {"undefined", "null"}

\* v.key for a readable value: a missing property reads as undefined.
Get(v, key) ==
  IF v.t = "object" /\ key \in DOMAIN v.o THEN v.o[key] ELSE Undef

\* v[i] for a readable value and an index i, counted from 0: an element of
\* an array, undefined off its end and for the values of the model that are
\* not arrays.
At(v, i) ==
  IF v.t = "array" /\ i + 1 \in 1..Len(v.a) THEN v.a[i + 1] ELSE Undef

\* Object.assign(target, source) on objects whose key order is immaterial.
Assign(target, source) ==
  [k \in DOMAIN target \cup DOMAIN source |->
     IF k \in DOMAIN source THEN source[k] ELSE target[k]]

\* `delete object[key]`.
Delete(object, key) == [k \in DOMAIN object \ {key} |-> object[k]]

\* ------------------------------------------------------------------------
\* Strings
\* ------------------------------------------------------------------------

CharAt(s, i) == SubSeq(s, i, i)

\* The position of the first occurrence of sub in s at or after from, or 0.
RECURSIVE IndexFrom(_, _, _)
IndexFrom(s, sub, from) ==
  IF from + Len(sub) - 1 > Len(s) THEN 0
  ELSE IF SubSeq(s, from, from + Len(sub) - 1) = sub THEN from
  ELSE IndexFrom(s, sub, from + 1)

IndexOf(s, sub) == IndexFrom(s, sub, 1)

Contains(s, sub) == IndexOf(s, sub) # 0

\* s.split(sep) for a non-empty separator.
RECURSIVE Split(_, _)
Split(s, sep) ==
  LET i == IndexOf(s, sep) IN
    IF i = 0 THEN <<s>>
    ELSE <<SubSeq(s, 1, i - 1)>> \o Split(SubSeq(s, i + Len(sep), Len(s)), sep)

\* x.join(sep) for a sequence of strings.
RECURSIVE Join(_, _)
Join(parts, sep) ==
  IF Len(parts) = 0 THEN ""
  ELSE IF Len(parts) = 1 THEN parts[1]
  ELSE parts[1] \o sep \o Join(Tail(parts), sep)

\* s.replace(/^\/+/, '').
RECURSIVE StripLeadingSlashes(_)
StripLeadingSlashes(s) ==
  IF Len(s) > 0 /\ CharAt(s, 1) = "/"
  THEN StripLeadingSlashes(SubSeq(s, 2, Len(s)))
  ELSE s

\* s.replace(/\/+$/, '').
RECURSIVE StripTrailingSlashes(_)
StripTrailingSlashes(s) ==
  IF Len(s) > 0 /\ CharAt(s, Len(s)) = "/"
  THEN StripTrailingSlashes(SubSeq(s, 1, Len(s) - 1))
  ELSE s

\* The printable ASCII characters, in code order from 32 (space) to 126.  A
\* TLA+ string cannot hold the backquote (code 96): a blank stands in its
\* place, and no string of the model contains a backquote.
Ascii ==
  " !\"#$%&'()*+,-./0123456789:;<=>?@ABCDEFGHIJKLMNOPQRSTUVWXYZ[\\]^_ abcdefghijklmnopqrstuvwxyz{|}~"

CharCode(ch) == 31 + IndexOf(Ascii, ch)

FromCharCode(n) == CharAt(Ascii, n - 31)

\* String.prototype.toLowerCase, for the characters of Ascii.
RECURSIVE ToLowerCase(_)
ToLowerCase(s) ==
  IF s = "" THEN ""
  ELSE LET c == CharCode(CharAt(s, 1)) IN
    (IF c \in 65..90 THEN FromCharCode(c + 32) ELSE CharAt(s, 1))
      \o ToLowerCase(SubSeq(s, 2, Len(s)))

HexDigits == "0123456789ABCDEF"

HexByte(n) ==
  CharAt(HexDigits, (n \div 16) + 1) \o CharAt(HexDigits, (n % 16) + 1)

HexValue(ch) == IndexOf(HexDigits, ch) - 1

\* ------------------------------------------------------------------------
\* querystring (node core module, used at src/src/rest-client.ts:46)
\* ------------------------------------------------------------------------

\* The characters querystring.escape leaves alone.
QsUnreservedChars ==
  "ABCDEFGHIJKLMNOPQRSTUVWXYZabcdefghijklmnopqrstuvwxyz0123456789-_.!~*'()"

QsUnreserved == {CharAt(QsUnreservedChars, i) : i \in 1..Len(QsUnreservedChars)}

\* querystring.escape: percent-encode every character that is not unreserved.
RECURSIVE QsEscape(_)
QsEscape(s) ==
  IF Len(s) = 0 THEN ""
  ELSE LET ch == CharAt(s, 1) IN
    (IF ch \in QsUnreserved THEN ch ELSE "%" \o HexByte(CharCode(ch)))
      \o QsEscape(SubSeq(s, 2, Len(s)))

\* querystring.unescape: decode %XX, leave the rest.
RECURSIVE QsUnescape(_)
QsUnescape(s) ==
  IF Len(s) = 0 THEN ""
  ELSE IF CharAt(s, 1) = "%" /\ Len(s) >= 3
    THEN FromCharCode(16 * HexValue(CharAt(s, 2)) + HexValue(CharAt(s, 3)))
           \o QsUnescape(SubSeq(s, 4, Len(s)))
  ELSE CharAt(s, 1) \o QsUnescape(SubSeq(s, 2, Len(s)))

\* stringifyPrimitive: strings, numbers and booleans print, the rest is ''.
StringifyPrimitive(v) ==
  IF v.t \in {"string", "number", "boolean"} THEN ToStr(v) ELSE ""

\* querystring.stringify of an ordered object <<[k |-> key, v |-> value], ...>>:
\* the pairs in insertion order as escape(key)=escape(value), joined by &.
stringify(obj) ==
  Join([i \in 1..Len(obj) |->
          QsEscape(obj[i].k) \o "=" \o QsEscape(StringifyPrimitive(obj[i].v))],
       "&")

\* querystring.parse of a query string, as the receiving side reads it: the
\* sequence of <<key, value>> pairs, unescaped, in order of appearance.
ParsePair(p) ==
  LET i == IndexOf(p, "=") IN
    IF i = 0 THEN [k |-> QsUnescape(p), v |-> ""]
    ELSE [k |-> QsUnescape(SubSeq(p, 1, i - 1)),
          v |-> QsUnescape(SubSeq(p, i + 1, Len(p)))]

parse(qs) ==
  IF qs = "" THEN <<>>
  ELSE LET ps == Split(qs, "&") IN [i \in 1..Len(ps) |-> ParsePair(ps[i])]

\* The query string of a URL: what follows its first "?".
QueryOf(u) ==
  LET i == IndexOf(u, "?") IN
    IF i = 0 THEN "" ELSE SubSeq(u, i + 1, Len(u))

\* ------------------------------------------------------------------------
\* Ordered objects (the caller's params object)
\* ------------------------------------------------------------------------

Keys(obj) == {obj[i].k : i \in 1..Len(obj)}

\* Object.assign(target, {key: value}) for one key: an existing key keeps its
\* position and takes the new value, a new key is appended.
Put(obj, key, value) ==
  IF key \in Keys(obj)
  THEN [i \in 1..Len(obj) |->
          IF obj[i].k = key THEN [k |-> key, v |-> value] ELSE obj[i]]
  ELSE Append(obj, [k |-> key, v |-> value])

\* Object.assign(target, source) for ordered objects.
RECURSIVE AssignOrdered(_, _)
AssignOrdered(target, source) ==
  IF Len(source) = 0 THEN target
  ELSE AssignOrdered(Put(target, source[1].k, source[1].v), Tail(source))

\* ------------------------------------------------------------------------
\* url-join (imported as `url` at src/src/rest-client.ts:2)
\* ------------------------------------------------------------------------

\* One component of the joined URL: all but the first lose their leading
\* slashes, all but the last lose their trailing slashes.
UrlComponent(parts, i) ==
  LET a == IF i > 1 THEN StripLeadingSlashes(parts[i]) ELSE parts[i]
  IN IF i < Len(parts) THEN StripTrailingSlashes(a) ELSE a

\* url(...parts): the non-empty components joined by "/", and the slash in
\* front of the query string removed.
url(parts) ==
  LET comps == [i \in 1..Len(parts) |-> UrlComponent(parts, i)]
      kept  == SelectSeq(comps, LAMBDA c : c # "")
      str   == Join(kept, "/")
  IN Join(Split(str, "/?"), "?")

\* ------------------------------------------------------------------------
\* utils: getNonce and getHmac (src/src/errors.ts:220-248)
\* ------------------------------------------------------------------------

Base64Alphabet ==
  "ABCDEFGHIJKLMNOPQRSTUVWXYZabcdefghijklmnopqrstuvwxyz0123456789+/"

B64(n) == CharAt(Base64Alphabet, n + 1)

\* Buffer.toString('base64'): three bytes make four characters, and a last
\* group of one or two bytes is padded with "=".
RECURSIVE Base64(_)
Base64(bytes) ==
  IF Len(bytes) = 0 THEN ""
  ELSE IF Len(bytes) = 1 THEN
    B64(bytes[1] \div 4) \o B64((bytes[1] % 4) * 16) \o "=="
  ELSE IF Len(bytes) = 2 THEN
    B64(bytes[1] \div 4) \o B64((bytes[1] % 4) * 16 + bytes[2] \div 16)
      \o B64((bytes[2] % 16) * 4) \o "="
  ELSE
    B64(bytes[1] \div 4) \o B64((bytes[1] % 4) * 16 + bytes[2] \div 16)
      \o B64((bytes[2] % 16) * 4 + bytes[3] \div 64) \o B64(bytes[3] % 64)
      \o Base64(SubSeq(bytes, 4, Len(bytes)))

\* The number of random bytes of a nonce.
NonceBytes == 16

\* crypto.randomBytes(16), as a source of fresh tokens: its n-th draw yields
\* a buffer no other draw yields.  The first is of zeros, and the encoding
\* of the second holds "+" and "/".
RandomBuffer(n) ==
  [i \in 1..NonceBytes |->
     ((n - 1) * (IF i = 1 THEN 251 ELSE IF i = 2 THEN 255 ELSE i)) % 256]

\* What crypto.randomBytes(16) may return in the model.
RandomBytes == { RandomBuffer(n) : n \in 1..MaxDraws }

\* getNonce() that encodes a buffer of its own instead of the bytes drawn.
getNonce_Stored(bytes) == Base64(RandomBuffer(1))

\* getNonce(), given the random bytes drawn.
getNonce(bytes) == Base64(bytes)

\* getHmac(uri, apisecret): the hex HMAC-SHA512 of uri under the key
\* apisecret, kept symbolic: two digests are equal iff key and data are.
getHmac(uri, apisecret) == [hmac |-> "sha512", key |-> apisecret, data |-> uri]

\* ------------------------------------------------------------------------
\* Error classes (src/unnamed/part_001:1-36, src/src/errors.ts:1-21)
\* ------------------------------------------------------------------------

\* An error object.  class is the prototype installed by
\* Object.setPrototypeOf; absent properties read as undefined.
ErrorObject(class, name, message, stack, bittexMessage, statusCode) ==
  [t |-> "error", class |-> class, name |-> name, message |-> message,
   stack |-> stack, bittexMessage |-> bittexMessage, statusCode |-> statusCode]

\* The stack captured by `super(msg)` when no other stack is installed.
OwnStack(class, message) == "Error: " \o message \o "\n    at new " \o class

\* msg.stack, for msg a string or an error object.
StackOf(msg) == IF msg.t = "error" THEN Str(msg.stack) ELSE Undef

\* new Error(message), as the transport library creates its failures.
NewError(message) ==
  ErrorObject("Error", "Error", message, OwnStack("Error", message),
              Undef, Undef)

\* new TypeError(message), as the runtime throws for a property read off
\* null or undefined.
NewTypeError(message) ==
  ErrorObject("TypeError", "TypeError", message,
              OwnStack("TypeError", message), Undef, Undef)

\* BittrexHttpError without the `if (msg.stack)` branch: the wrapper keeps
\* the stack of its own construction.
BittrexHttpError_OwnStack(msg, bittexMessage, statusCode) ==
  LET message == ToStr(msg) IN
    ErrorObject("BittrexHttpError", "HTTPError", message,
                OwnStack("BittrexHttpError", message),
                bittexMessage, statusCode)

\* new BittrexHttpError(msg, bittexMessage, statusCode).
BittrexHttpError(msg, bittexMessage, statusCode) ==
  LET message == ToStr(msg) IN
    ErrorObject("BittrexHttpError", "HTTPError", message,
                IF Truthy(StackOf(msg)) THEN StackOf(msg).s
                ELSE OwnStack("BittrexHttpError", message),
                bittexMessage, statusCode)

\* BittrexRestApiError that drops its argument: a fixed message, and no
\* bittexMessage property.
BittrexRestApiError_NoMessage(bittexMessage) ==
  LET message == "bittrex returned an error" IN
    ErrorObject("BittrexRestApiError", "BittrexRestApiError", message,
                OwnStack("BittrexRestApiError", message),
                Undef, Undef)

\* new BittrexRestApiError(bittexMessage).
BittrexRestApiError(bittexMessage) ==
  LET message == "bittrex returned \"" \o ToStr(bittexMessage) \o "\" error" IN
    ErrorObject("BittrexRestApiError", "BittrexRestApiError", message,
                OwnStack("BittrexRestApiError", message),
                bittexMessage, Undef)

\* new RestApiError(msg): the class of src/src/errors.ts.
RestApiError(msg) ==
  LET message == ToStr(msg) IN
    ErrorObject("RestApiError", "BittrexRestApiError", message,
                IF Truthy(StackOf(msg)) THEN StackOf(msg).s
                ELSE OwnStack("RestApiError", message),
                Undef, Undef)

\* The class each class extends.
Extends ==
  [BittrexHttpError    |-> "Error",
   BittrexRestApiError |-> "Error",
   RestApiError        |-> "Error",
   TypeError           |-> "Error",
   Error               |-> "Object"]

\* The prototype chain of a class, the class itself included.
RECURSIVE Ancestors(_)
Ancestors(class) ==
  IF class \in DOMAIN Extends THEN {class} \cup Ancestors(Extends[class])
  ELSE {class}

\* e instanceof class.
InstanceOf(e, class) == e.t = "error" /\ class \in Ancestors(e.class)

\* e.toString(): Error.prototype.toString.
ErrorToString(e) == ToStr(e)

\* ------------------------------------------------------------------------
\* The transport library (axios), as src/src/rest-client.ts uses it
\* ------------------------------------------------------------------------

\* {} : the object without properties.
EmptyObject == [k \in {} |-> Undef]

\* The library's own defaults that bear on the client: the method is GET,
\* there is no timeout and a status outside 2xx is a failure.  (The headers
\* the library adds of its own are left out.)
AxiosLibraryDefaults ==
  [method |-> "get", timeout |-> 0, validateStatus |-> "is2xx",
   headers |-> EmptyObject]

\* How the library merges two configurations: per key the higher one's value
\* replaces the lower one's, but headers are merged header by header.
MergeConfig(lower, higher) ==
  [key \in DOMAIN lower \cup DOMAIN higher |->
     IF key \notin DOMAIN higher THEN lower[key]
     ELSE IF key = "headers" /\ key \in DOMAIN lower
     THEN Assign(lower[key], higher[key])
     ELSE higher[key]]

\* axios.create(config): an instance whose defaults are the library's,
\* merged with config.
AxiosCreate(config) == [defaults |-> MergeConfig(AxiosLibraryDefaults, config)]

\* The configuration of one request: the instance's defaults merged with the
\* request's options.
AxiosRequestConfig(instance, requestOptions) ==
  MergeConfig(instance.defaults, requestOptions)

\* Whether the library takes a URL as absolute: a scheme and "//", or "//".
IsAbsoluteURL(u) ==
  LET i == IndexOf(u, "//") IN
    \/ i = 1
    \/ /\ i > 2
       /\ CharAt(u, i - 1) = ":"
       /\ \A j \in 1..(i - 2) :
            LET c == CharCode(CharAt(u, j)) IN
              \/ c \in 65..90 \/ c \in 97..122
              \/ j > 1 /\ (c \in 48..57 \/ c \in {43, 45, 46})

\* config.validateStatus(status), for the functions the model knows.
ValidateStatus(fn, status) ==
  CASE fn = "always" -> TRUE
    [] fn = "is2xx"  -> status >= 200 /\ status < 300
    [] OTHER         -> FALSE

\* How the transport settles a request whose response has arrived: with the
\* response, or with an error when validateStatus turns the status down.
SettleResponse(config, response) ==
  IF ValidateStatus(config.validateStatus, response.status)
  THEN [kind |-> "response", response |-> response]
  ELSE [kind |-> "error", cause |-> "status", response |-> response,
        error |-> NewError("Request failed with status code "
                             \o ToString(response.status))]

\* How the transport settles a request that does not complete.
SettleFailure(config, failure) ==
  [kind |-> "error", cause |-> failure,
   error |-> IF failure = "timeout"
             THEN NewError("timeout of " \o ToString(config.timeout)
                             \o "ms exceeded")
             ELSE NewError("Network Error")]

\* ------------------------------------------------------------------------
\* The logger (src/src/log.ts), as the client and its helpers use it
\* ------------------------------------------------------------------------

\* The log lines a call passes, in this order: the one of getNonce, the two
\* of getHmac, the one of the request interceptor and the one of the
\* response interceptor.
LogLines == <<"nonce", "hmac", "hmacDone", "request", "response">>

\* What the logger throws when it fails.
LoggerError == NewError("logger failed")

\* The response interceptor (rest-client.ts:32-36) logs the response the
\* transport settled with and returns it; what the logger throws there is
\* what the request fails with.  A failure of the transport passes it by.
ResponseInterceptor(log, settled) ==
  IF settled.kind = "response" /\ log = "response"
  THEN [kind |-> "error", cause |-> "logger", error |-> LoggerError]
  ELSE settled

\* ------------------------------------------------------------------------
\* Inputs the model draws from
\* ------------------------------------------------------------------------

\* The options objects clients are constructed with (Models.BittrexApiOptions).
ClientOptions ==
  { [apikey |-> "key-A", apisecret |-> "secret-A"],
    [apikey |-> "key-B", apisecret |-> "secret-B", apiVersion |-> "v2.0",
     axiosOptions |-> [timeout |-> 100, validateStatus |-> "is2xx",
                       headers |-> [Accept |-> "application/json"]]] }

\* The (path, options) arguments RestClient.http is called with: no options;
\* caller params (one of them undefined), a per-call timeout and a baseURL;
\* params that name apikey and nonce themselves; options that name a url
\* and headers; options that name validateStatus, a method and data.
HttpArgs ==
  { [path |-> "/public/getmarkets", options |-> EmptyObject],
    [path |-> "public/getticker/",
     options |-> [params |-> << [k |-> "market", v |-> Str("BTC-LTC")],
                                [k |-> "currency", v |-> Undef] >>,
                  timeout |-> 50, baseURL |-> "https://example.com/api/"]],
    [path |-> "/account/withdraw",
     options |-> [params |-> << [k |-> "nonce", v |-> Str("0")],
                                [k |-> "apikey", v |-> Str("not the key")],
                                [k |-> "address", v |-> Str("a&b=c") ] >>]],
    [path |-> "/valid/endpoint",
     options |-> [url |-> "https://bittrex.com/api/v1.1/public/getmarkets",
                  headers |-> [Pragma |-> "no-cache"]]],
    [path |-> "/market/buylimit",
     options |-> [validateStatus |-> "is2xx", method |-> "post",
                  data |-> "quantity=1"]] }

Response(status, statusText, data) ==
  [status |-> status, statusText |-> statusText,
   headers |-> [server |-> "cloudflare"], data |-> data]

Ticker == Obj([Bid |-> Num(2), Ask |-> Num(3), Last |-> Num(3)])

\* The responses the transport may deliver: statuses other than 200 (one
\* without status text, one with success = true in its body, one with a null
\* body), and status 200 with success true, false, a non-boolean, missing,
\* and with a body that is null or the empty string.
Responses ==
  { Response(404, Null, Obj(EmptyObject)),
    Response(500, Str("Internal Server Error"), Null),
    Response(201, Str("Created"),
             Obj([success |-> Bool(TRUE), message |-> Str(""),
                  result |-> Ticker])),
    Response(200, Str("OK"),
             Obj([success |-> Bool(TRUE), message |-> Str(""),
                  result |-> Ticker])),
    Response(200, Str("OK"),
             Obj([success |-> Bool(FALSE),
                  message |-> Str("something went wrong"),
                  result |-> Null])),
    Response(200, Str("OK"),
             Obj([success |-> Str("false"), message |-> Str("declined")])),
    Response(200, Str("OK"), Obj([message |-> Str("no success field")])),
    Response(200, Str("OK"), Null),
    Response(200, Str("OK"), Str("")) }

\* The ways the transport may fail to complete a request.
Failures == {"timeout", "network"}

\* ------------------------------------------------------------------------
\* The wrapper methods (src/src/rest-client.ts:112-397), up to their call
\* of RestClient.http
\* ------------------------------------------------------------------------

\* The calls of wrapper methods the model makes: each method once, and the
\* methods whose tickers are optional with and without them.
WrapperCalls ==
  { [method |-> "getMarkets", args |-> <<>>],
    [method |-> "getCurrencies", args |-> <<>>],
    [method |-> "getTicker", args |-> <<Str("BTC"), Str("LTC")>>],
    [method |-> "getMarketSummaries", args |-> <<>>],
    [method |-> "getMarketSummary", args |-> <<Str("BTC"), Str("LTC")>>],
    [method |-> "getOrderBook",
     args |-> <<Str("BTC"), Str("LTC"), Str("BOTH")>>],
    [method |-> "getMarketHistory", args |-> <<Str("BTC"), Str("LTC")>>],
    [method |-> "getBalances", args |-> <<>>],
    [method |-> "getBalance", args |-> <<Str("BTC")>>],
    [method |-> "getOrderHistory", args |-> <<>>],
    [method |-> "getOrderHistory", args |-> <<Str("BTC"), Str("LTC")>>],
    [method |-> "getDepositHistory", args |-> <<>>],
    [method |-> "getDepositAddress", args |-> <<Str("BTC")>>],
    [method |-> "getOrder", args |-> <<Str("0cb4c4e4")>>],
    [method |-> "withdraw",
     args |-> << Obj(<< [k |-> "currency", v |-> Str("BTC")],
                        [k |-> "quantity", v |-> Str("1")],
                        [k |-> "address", v |-> Str("1BitcoinAddress")] >>) >>],
    [method |-> "getWithdrawlHistory", args |-> <<Str("BTC")>>],
    [method |-> "buyLimit",
     args |-> <<Str("BTC"), Str("LTC"), Str("1"), Str("0.5")>>],
    [method |-> "sellLimit",
     args |-> <<Str("BTC"), Str("LTC"), Str("1"), Str("0.5")>>],
    [method |-> "cancelOrder", args |-> <<Str("0cb4c4e4")>>],
    [method |-> "getOpenOrders", args |-> <<>>],
    [method |-> "getOpenOrders", args |-> <<Str("BTC"), Str("LTC")>>] }

\* The i-th argument of a call: undefined when it is not given.
Arg(w, i) == IF i \in 1..Len(w.args) THEN w.args[i] ELSE Undef

\* The market of two tickers: the template literal of tickerA-tickerB.
Market(w) == Str(ToStr(Arg(w, 1)) \o "-" \o ToStr(Arg(w, 2)))

\* { params: {market} } when both tickers are given, else undefined, for
\* which the default of http's parameter steps in: {}.
OptionalMarket(w) ==
  IF Truthy(Arg(w, 1)) /\ Truthy(Arg(w, 2))
  THEN [params |-> << [k |-> "market", v |-> Market(w)] >>]
  ELSE EmptyObject

\* The (path, options) each wrapper method calls RestClient.http with.
WrapperHttpArgs(w) ==
  CASE w.method = "getMarkets" ->
         [path |-> "/public/getmarkets", options |-> EmptyObject]
    [] w.method = "getCurrencies" ->
         [path |-> "/public/getcurrencies", options |-> EmptyObject]
    [] w.method = "getTicker" ->
         [path |-> "/public/getticker",
          options |-> [params |-> << [k |-> "market", v |-> Market(w)] >>]]
    [] w.method = "getMarketSummaries" ->
         [path |-> "/public/getmarketsummaries", options |-> EmptyObject]
    [] w.method = "getMarketSummary" ->
         [path |-> "/public/getmarketsummary",
          options |-> [params |-> << [k |-> "market", v |-> Market(w)] >>]]
    [] w.method = "getOrderBook" ->
         [path |-> "/public/getorderbook",
          options |->
            [params |-> << [k |-> "market", v |-> Market(w)],
                           [k |-> "type",
                            v |-> Str(ToLowerCase(Arg(w, 3).s))] >>]]
    [] w.method = "getMarketHistory" ->
         [path |-> "/public/getmarkethistory",
          options |-> [params |-> << [k |-> "market", v |-> Market(w)] >>]]
    [] w.method = "getBalances" ->
         [path |-> "/account/getbalances", options |-> EmptyObject]
    [] w.method = "getBalance" ->
         [path |-> "/account/getbalance",
          options |-> [params |-> << [k |-> "currency", v |-> Arg(w, 1)] >>]]
    [] w.method = "getOrderHistory" ->
         [path |-> "/account/getorderhistory", options |-> OptionalMarket(w)]
    [] w.method = "getDepositHistory" ->
         [path |-> "/account/getdeposithistory",
          options |-> [params |-> << [k |-> "currency", v |-> Arg(w, 1)] >>]]
    [] w.method = "getDepositAddress" ->
         [path |-> "/account/getdepositaddress",
          options |-> [params |-> << [k |-> "currency", v |-> Arg(w, 1)] >>]]
    [] w.method = "getOrder" ->
         [path |-> "/account/getorder",
          options |-> [params |-> << [k |-> "uuid", v |-> Arg(w, 1)] >>]]
    [] w.method = "withdraw" ->
         [path |-> "/account/withdraw", options |-> [params |-> Arg(w, 1).o]]
    [] w.method = "getWithdrawlHistory" ->
         [path |-> "/account/getwithdrawalhistory",
          options |-> [params |-> << [k |-> "currency", v |-> Arg(w, 1)] >>]]
    [] w.method = "buyLimit" ->
         [path |-> "/market/buylimit",
          options |-> [params |-> << [k |-> "market", v |-> Market(w)],
                                     [k |-> "quantity", v |-> Arg(w, 3)],
                                     [k |-> "rate", v |-> Arg(w, 4)] >>]]
    [] w.method = "sellLimit" ->
         [path |-> "/market/selllimit",
          options |-> [params |-> << [k |-> "market", v |-> Market(w)],
                                     [k |-> "quantity", v |-> Arg(w, 3)],
                                     [k |-> "rate", v |-> Arg(w, 4)] >>]]
    [] w.method = "cancelOrder" ->
         [path |-> "/market/cancel",
          options |-> [params |-> << [k |-> "uuid", v |-> Arg(w, 1)] >>]]
    [] w.method = "getOpenOrders" ->
         [path |-> "/market/getopenorders", options |-> OptionalMarket(w)]

\* WrapperHttpArgs, tabulated over the calls of the model.
WrapperArgs == [w \in WrapperCalls |-> WrapperHttpArgs(w)]

MarketSummary ==
  Obj([MarketName |-> Str("BTC-LTC"), High |-> Num(3), Low |-> Num(2)])

\* The responses the transport may deliver to the call of a wrapper method:
\* success with an object, with an array of one element and with null for
\* result, success = false, and a status other than 200.
WrapperResponses ==
  { Response(200, Str("OK"),
             Obj([success |-> Bool(TRUE), message |-> Str(""),
                  result |-> Ticker])),
    Response(200, Str("OK"),
             Obj([success |-> Bool(TRUE), message |-> Str(""),
                  result |-> Arr(<<MarketSummary>>)])),
    Response(200, Str("OK"),
             Obj([success |-> Bool(TRUE), message |-> Str(""),
                  result |-> Null])),
    Response(200, Str("OK"),
             Obj([success |-> Bool(FALSE),
                  message |-> Str("something went wrong"),
                  result |-> Null])),
    Response(404, Null, Obj(EmptyObject)) }

\* The objects a caller keeps and passes to more than one call: a params
\* object, and an options object whose params property is that object.  The
\* options object holds the name of the params object where the code holds
\* a reference to it.
CallerParams ==
  << [k |-> "currency", v |-> Str("BTC")],
     [k |-> "quantity", v |-> Str("1")],
     [k |-> "address", v |-> Str("1BitcoinAddress")] >>

CallerObjects == [options |-> [params |-> "params"], params |-> CallerParams]

\* The options object as a call reads it: options.params is the params
\* object while options has the property.
Deref(objects, options) ==
  IF "params" \in DOMAIN options
  THEN [options EXCEPT !.params = objects.params]
  ELSE options

\* The path the caller's objects are used with.
CallerPath == "/account/withdraw"

\* http(CallerPath, options) for the caller's options object: the arguments
\* as the call finds them, and the objects of the caller they are.
CallerArgs(objects) ==
  [path |-> CallerPath, options |-> Deref(objects, objects.options),
   passed |-> IF "params" \in DOMAIN objects.options
              THEN {"options", "params"} ELSE {"options"}]

\* The objects of the caller among the arguments of a call: none when the
\* arguments are written out in the call.
Passed(args) == IF "passed" \in DOMAIN args THEN args.passed ELSE {}

\* The (path, options) of the arguments.
Content(args) == [path |-> args.path, options |-> args.options]

ClientIds == 1..MaxClients

\* ------------------------------------------------------------------------
\* State
\* ------------------------------------------------------------------------

VARIABLES
  AXIOS_DEFAULTS,  \* the module-level default transport settings
  clients,         \* the RestClient instances: this.options and this.axios
  calls,           \* the bag of activations of RestClient.http that await
                   \* a response
  last,            \* the call that has just settled and how, until its
                   \* caller has resumed with the outcome
  drawn,           \* the number of buffers crypto.randomBytes has yielded
  objects,         \* the caller's options object and params object
  logger           \* the log line at which the logger throws, or "works"

vars == <<AXIOS_DEFAULTS, clients, calls, last, drawn, objects, logger>>

NoClient == [constructed |-> FALSE]

NoneSettled == [kind |-> "none"]

Init ==
  /\ AXIOS_DEFAULTS = [timeout |-> 15000]
  /\ clients = [k \in ClientIds |-> NoClient]
  /\ calls = EmptyBag
  /\ last = NoneSettled
  /\ drawn = 0
  /\ objects = CallerObjects
  /\ logger = "works"

\* ------------------------------------------------------------------------
\* RestClient.constructor (src/src/rest-client.ts:19-37)
\* ------------------------------------------------------------------------

\* options.axiosOptions || {}
AxiosOptionsOf(options) ==
  IF "axiosOptions" \in DOMAIN options THEN options.axiosOptions
  ELSE EmptyObject

\* new RestClient(options).  Object.assign writes the overrides into its
\* first argument, the module-level AXIOS_DEFAULTS, and returns it.
Constructor(k, options) ==
  /\ last = NoneSettled
  /\ ~clients[k].constructed
  /\ \A j \in ClientIds : j < k => clients[j].constructed
  /\ LET assigned == Assign(AXIOS_DEFAULTS, AxiosOptionsOf(options)) IN
       /\ AXIOS_DEFAULTS' = assigned
       /\ clients' = [clients EXCEPT ![k] =
                        [constructed |-> TRUE, options |-> options,
                         axios |-> AxiosCreate(assigned)]]
  /\ UNCHANGED <<calls, last, drawn, objects, logger>>

\* ------------------------------------------------------------------------
\* RestClient.http (src/src/rest-client.ts:44-107)
\* ------------------------------------------------------------------------

\* options.params || {}
ParamsOf(options) ==
  IF "params" \in DOMAIN options THEN options.params ELSE <<>>

\* MergedParams with the arguments of Object.assign in the other order: the
\* caller's params are assigned on top of apikey and nonce.
MergedParams_CallerWins(client, options, nonce) ==
  AssignOrdered(<< [k |-> "apikey", v |-> Str(client.options.apikey)],
                   [k |-> "nonce", v |-> Str(nonce)] >>,
                ParamsOf(options))

\* Lines 47-53: the caller's params with apikey and nonce assigned on top.
MergedParams(client, options, nonce) ==
  AssignOrdered(ParamsOf(options),
                << [k |-> "apikey", v |-> Str(client.options.apikey)],
                   [k |-> "nonce", v |-> Str(nonce)] >>)

\* this.options.apiVersion || 'v1.1'
ApiVersionOf(client) ==
  IF "apiVersion" \in DOMAIN client.options /\ client.options.apiVersion # ""
  THEN client.options.apiVersion ELSE "v1.1"

\* Lines 61-66: the entire endpoint.
FullUrl(client, path, querystring) ==
  url(<< "https://bittrex.com/api/", ApiVersionOf(client), path,
         "?" \o querystring >>)

\* Lines 70-78: the url, the signature header and validateStatus, with the
\* caller's options (params deleted) assigned on top.
RequestOptions(client, fullUrl, options) ==
  Assign([url |-> fullUrl,
          headers |-> [apisign |-> getHmac(fullUrl, client.options.apisecret)],
          validateStatus |-> "always"],
         options)

\* Lines 44-78: what the call builds before it dispatches, for a client
\* constructed with clientOptions.  bytes are the random bytes getNonce draws.
\* options and params are the caller's objects as the call leaves them.
httpBuild(clientOptions, args, bytes) ==
  LET client         == [options |-> clientOptions]
      nonce          == getNonce(bytes)
      params         == MergedParams(client, args.options, nonce)
      querystring    == stringify(params)
      options        == Delete(args.options, "params")
      fullUrl        == FullUrl(client, args.path, querystring)
      requestOptions == RequestOptions(client, fullUrl, options)
  IN [nonce |-> nonce, params |-> params, querystring |-> querystring,
      options |-> options, fullUrl |-> fullUrl,
      requestOptions |-> requestOptions]

\* The states the caller's params object takes: as the caller made it, and
\* as a call of a client leaves it.
CallerParamsStates ==
  {CallerParams} \cup
  { MergedParams([options |-> clientOptions], [params |-> CallerParams],
                 getNonce(bytes)) :
      clientOptions \in ClientOptions, bytes \in RandomBytes }

\* The (path, options) the calls made with the caller's objects find: the
\* options with the params object in one of its states, and without params.
CallerHttpArgs ==
  { [path |-> CallerPath, options |-> [params |-> params]] :
      params \in CallerParamsStates }
    \cup { [path |-> CallerPath, options |-> EmptyObject] }

\* The arguments RestClient.http is called with in the model: by its users,
\* by the wrapper methods, and with the objects a caller keeps.
AllHttpArgs ==
  HttpArgs \cup { WrapperArgs[w] : w \in WrapperCalls } \cup CallerHttpArgs

\* httpBuild, tabulated over the inputs of the model.
HttpBuilt ==
  [clientOptions \in ClientOptions |->
    [args \in AllHttpArgs |->
      [bytes \in RandomBytes |-> httpBuild(clientOptions, args, bytes)]]]

\* The urls of the requests the calls of the model hand to the transport,
\* and whether the library takes each as absolute.
RequestedUrls ==
  { HttpBuilt[clientOptions][args][bytes].requestOptions.url :
      clientOptions \in ClientOptions, args \in AllHttpArgs,
      bytes \in RandomBytes }

AbsoluteUrl == [u \in RequestedUrls |-> IsAbsoluteURL(u)]

\* The URL the transport sends the request to: config.url, put behind
\* config.baseURL when there is one and config.url is not absolute.
TransmittedUrl(config) ==
  IF "baseURL" \in DOMAIN config /\ ~AbsoluteUrl[config.url]
  THEN StripTrailingSlashes(config.baseURL) \o "/"
         \o StripLeadingSlashes(config.url)
  ELSE config.url

\* No request body.
NoBody == [t |-> "none"]

\* The request the transport sends for a configuration.
Request(config) ==
  [method |-> config.method, url |-> TransmittedUrl(config),
   headers |-> config.headers,
   body |-> IF "data" \in DOMAIN config THEN Str(config.data) ELSE NoBody]

\* An activation of RestClient.http is the client it was called on, its
\* arguments, the draw of random bytes it made, the configuration of the
\* request it handed to the transport and its caller: a wrapper method, or
\* a user of the client.  What it built before its await:
Built(call) ==
  HttpBuilt[clients[call.client].options][call.args][RandomBuffer(call.draw)]

\* Line 82: the configuration of the request it handed to the transport.
Config(call) == call.config

\* The caller of http that is no method of the client.
User == "user"

Resolved(value) == [kind |-> "resolved", value |-> value]

Rejected(error) == [kind |-> "rejected", error |-> error]

\* httpAfterAwait with the two tests in the other order: body.success is
\* read first, the status only when success is not truthy.
httpAfterAwait_BodyFirst(settled) ==
  IF settled.kind = "error"
  THEN Rejected(BittrexHttpError(settled.error, Undef, Undef))
  ELSE LET result == settled.response
           body   == result.data
       IN
    IF ~Readable(body)
    THEN Rejected(NewTypeError("Cannot read property 'success' of "
                                 \o ToStr(body)))
    ELSE IF Truthy(Get(body, "success"))
    THEN Resolved(result)
    ELSE IF result.status # 200
    THEN Rejected(BittrexHttpError(
           Str("received http " \o ToString(result.status)
                 \o " from bittrex with message \""
                 \o ToStr(result.statusText) \o "\""),
           result.statusText, Num(result.status)))
    ELSE Rejected(BittrexRestApiError(Get(body, "message")))

\* httpAfterAwait that resolves with the body of the response, as the wrapper
\* methods do, instead of the response.
httpAfterAwait_ReturnsBody(settled) ==
  IF settled.kind = "error"
  THEN Rejected(BittrexHttpError(settled.error, Undef, Undef))
  ELSE LET result == settled.response IN
    IF result.status # 200
    THEN Rejected(BittrexHttpError(
           Str("received http " \o ToString(result.status)
                 \o " from bittrex with message \""
                 \o ToStr(result.statusText) \o "\""),
           result.statusText, Num(result.status)))
    ELSE LET body == result.data IN
      IF ~Readable(body)
      THEN Rejected(NewTypeError("Cannot read property 'success' of "
                                   \o ToStr(body)))
      ELSE IF Truthy(Get(body, "success"))
      THEN Resolved(body)
      ELSE Rejected(BittrexRestApiError(Get(body, "message")))

\* Lines 81-106: what the call does once the transport has settled.
httpAfterAwait(settled) ==
  IF settled.kind = "error"
  THEN Rejected(BittrexHttpError(settled.error, Undef, Undef))
  ELSE LET result == settled.response IN
    IF result.status # 200
    THEN Rejected(BittrexHttpError(
           Str("received http " \o ToString(result.status)
                 \o " from bittrex with message \""
                 \o ToStr(result.statusText) \o "\""),
           result.statusText, Num(result.status)))
    ELSE LET body == result.data IN
      IF ~Readable(body)
      THEN Rejected(NewTypeError("Cannot read property 'success' of "
                                   \o ToStr(body)))
      ELSE IF Truthy(Get(body, "success"))
      THEN Resolved(result)
      ELSE Rejected(BittrexRestApiError(Get(body, "message")))

\* What each wrapper method returns of ret, the response http resolved
\* with.
WrapperReturns ==
  [getMarkets |-> "ret.data.result", getCurrencies |-> "ret.data.result",
   getTicker |-> "ret.data.result", getMarketSummaries |-> "ret.data.result",
   getMarketSummary |-> "ret.data.result[0]",
   getOrderBook |-> "ret.data.result", getMarketHistory |-> "ret.data.result",
   getBalances |-> "ret.data.result", getBalance |-> "ret.data.result",
   getOrderHistory |-> "ret.data.result",
   getDepositHistory |-> "ret.data.result",
   getDepositAddress |-> "ret.data.result", getOrder |-> "ret.data.result",
   withdraw |-> "ret.data.result", getWithdrawlHistory |-> "ret.data.result",
   buyLimit |-> "ret.data.result", sellLimit |-> "ret.data.result",
   cancelOrder |-> "", getOpenOrders |-> "ret.data.result"]

\* WrapperAfterAwait of a wrapper that catches what http throws and returns
\* undefined.
WrapperAfterAwait_Swallows(caller, outcome) ==
  IF caller = User THEN outcome
  ELSE IF outcome.kind = "rejected" THEN Resolved(Undef)
  ELSE LET result == Get(outcome.value.data, "result") IN
    CASE WrapperReturns[caller] = "ret.data.result" -> Resolved(result)
      [] WrapperReturns[caller] = "ret.data.result[0]" ->
           IF Readable(result) THEN Resolved(At(result, 0))
           ELSE Rejected(NewTypeError("Cannot read property '0' of "
                                        \o ToStr(result)))
      [] OTHER -> Resolved(Undef)

\* WrapperAfterAwait of wrappers that all return the first element of
\* result when it is an array.
WrapperAfterAwait_AllUnwrap(caller, outcome) ==
  IF caller = User \/ outcome.kind = "rejected" THEN outcome
  ELSE LET result == Get(outcome.value.data, "result") IN
    CASE WrapperReturns[caller] = "" -> Resolved(Undef)
      [] OTHER -> IF result.t = "array" THEN Resolved(At(result, 0))
                  ELSE Resolved(result)

\* WrapperAfterAwait of wrappers that return the envelope instead of its
\* result.
WrapperAfterAwait_ReturnsEnvelope(caller, outcome) ==
  IF caller = User \/ outcome.kind = "rejected" THEN outcome
  ELSE LET result == Get(outcome.value.data, "result") IN
    CASE WrapperReturns[caller] = "ret.data.result" ->
           Resolved(outcome.value.data)
      [] WrapperReturns[caller] = "ret.data.result[0]" ->
           IF Readable(result) THEN Resolved(At(result, 0))
           ELSE Rejected(NewTypeError("Cannot read property '0' of "
                                        \o ToStr(result)))
      [] OTHER -> Resolved(Undef)

\* What the caller of http does with its outcome.  A wrapper method awaits
\* http without a try: what http throws, the wrapper throws; of the
\* response http resolves with it returns what WrapperReturns says.  A
\* user of the client has the outcome as it is.
WrapperAfterAwait(caller, outcome) ==
  IF caller = User \/ outcome.kind = "rejected" THEN outcome
  ELSE LET result == Get(outcome.value.data, "result") IN
    CASE WrapperReturns[caller] = "ret.data.result" -> Resolved(result)
      [] WrapperReturns[caller] = "ret.data.result[0]" ->
           IF Readable(result) THEN Resolved(At(result, 0))
           ELSE Rejected(NewTypeError("Cannot read property '0' of "
                                        \o ToStr(result)))
      [] OTHER -> Resolved(Undef)

\* Lines 47-57 on the objects of the caller: Object.assign writes apikey and
\* nonce into the params object it is given, and delete takes the params
\* property off the options object.
ObjectsAfter(kept, args, built) ==
  [options |-> IF "options" \in Passed(args)
               THEN Delete(kept.options, "params") ELSE kept.options,
   params  |-> IF "params" \in Passed(args)
               THEN built.params ELSE kept.params]

\* No request was handed to the transport.
Unsent == [kind |-> "unsent"]

\* Lines 44-82, up to the await: the call draws its random bytes, builds its
\* request and hands it to the transport.  What the logger throws in
\* getNonce (before Object.assign has run) or in getHmac, the call throws;
\* what it throws in the request interceptor makes the request fail before
\* it is sent, and the call throws a BittrexHttpError of it.
http(k, args, caller) ==
  /\ last = NoneSettled
  /\ BagCardinality(calls) < MaxCalls
  /\ drawn < MaxDraws
  /\ clients[k].constructed
  /\ LET built == HttpBuilt[clients[k].options][Content(args)]
                            [RandomBuffer(drawn + 1)]
         call  == [client |-> k, args |-> Content(args),
                   passed |-> Passed(args), draw |-> drawn + 1,
                   caller |-> caller,
                   config |-> AxiosRequestConfig(clients[k].axios,
                                                 built.requestOptions)]
         thrown == IF logger = "request"
                   THEN Rejected(BittrexHttpError(LoggerError, Undef, Undef))
                   ELSE Rejected(LoggerError)
     IN /\ objects' = IF logger = "nonce" THEN objects
                      ELSE ObjectsAfter(objects, args, built)
        /\ IF logger \in {"nonce", "hmac", "hmacDone", "request"}
           THEN /\ calls' = calls
                /\ last' = [kind |-> "settled", call |-> call,
                            transport |-> Unsent, outcome |-> thrown,
                            returned |-> WrapperAfterAwait(caller, thrown)]
           ELSE /\ calls' = calls (+) SetToBag({call})
                /\ last' = last
  /\ drawn' = drawn + 1
  /\ UNCHANGED <<AXIOS_DEFAULTS, clients, logger>>

\* A wrapper method up to its await (lines 112-397): it is called on a
\* client and calls http with the path and options it makes of its
\* arguments.
Wrapper(k, w) ==
  /\ BagCardinality(calls) < MaxWrapperCalls
  /\ http(k, WrapperArgs[w], w.method)

\* Settle that leaves the request of the call with the transport, as a call
\* would that dispatched its request again.
Settle_Redispatches(call, settled) ==
  /\ last = NoneSettled
  /\ LET outcome == httpAfterAwait(ResponseInterceptor(logger, settled))
     IN last' = [kind |-> "settled", call |-> call,
                 transport |-> settled, outcome |-> outcome,
                 returned |-> WrapperAfterAwait(call.caller, outcome)]
  /\ calls' = IF settled.kind = "error" THEN calls
              ELSE calls (-) SetToBag({call})
  /\ UNCHANGED <<AXIOS_DEFAULTS, clients, drawn, objects, logger>>

\* The awaiting call settles: its activation is gone, its outcome is with
\* its caller, and a wrapper method that called it settles in turn with
\* what it returns or throws.
Settle(call, settled) ==
  /\ last = NoneSettled
  /\ LET outcome == httpAfterAwait(ResponseInterceptor(logger, settled))
     IN last' = [kind |-> "settled", call |-> call,
                 transport |-> settled, outcome |-> outcome,
                 returned |-> WrapperAfterAwait(call.caller, outcome)]
  /\ calls' = calls (-) SetToBag({call})
  /\ UNCHANGED <<AXIOS_DEFAULTS, clients, drawn, objects, logger>>

\* The transport receives a response to the request of an awaiting call.
TransportResponds(call, response) ==
  /\ BagIn(call, calls)
  /\ Settle(call, SettleResponse(Config(call), response))

\* The transport fails to complete the request of an awaiting call; it times
\* out only when a timeout is set.
TransportFails(call, failure) ==
  /\ BagIn(call, calls)
  /\ failure = "timeout" => Config(call).timeout > 0
  /\ Settle(call, SettleFailure(Config(call), failure))

\* The caller's continuation runs with the outcome of the settled call: a
\* settled promise resumes its awaiter before any other event is handled.
CallerResumes ==
  /\ last # NoneSettled
  /\ last' = NoneSettled
  /\ UNCHANGED <<AXIOS_DEFAULTS, clients, calls, drawn, objects, logger>>

Next ==
  \/ \E k \in ClientIds, options \in ClientOptions : Constructor(k, options)
  \/ \E k \in ClientIds, args \in HttpArgs : http(k, args, User)
  \/ \E call \in BagToSet(calls), response \in Responses :
       TransportResponds(call, response)
  \/ \E call \in BagToSet(calls), failure \in Failures :
       TransportFails(call, failure)
  \/ CallerResumes

Spec == Init /\ [][Next]_vars

\* The client used through its wrapper methods.
WrapperNext ==
  \/ \E k \in ClientIds, options \in ClientOptions : Constructor(k, options)
  \/ \E k \in ClientIds, w \in WrapperCalls : Wrapper(k, w)
  \/ \E call \in BagToSet(calls), response \in WrapperResponses :
       TransportResponds(call, response)
  \/ \E call \in BagToSet(calls), failure \in Failures :
       TransportFails(call, failure)
  \/ CallerResumes

WrapperSpec == Init /\ [][WrapperNext]_vars

\* A caller calls http with the options object it keeps.
CallerCallsHttp(k) == http(k, CallerArgs(objects), User)

\* A caller calls withdraw with the params object it keeps (lines 296-300):
\* the method makes an options object of it, and calls http with that.
CallerWithdraws(k) ==
  LET w    == [method |-> "withdraw", args |-> << Obj(objects.params) >>]
      args == WrapperHttpArgs(w)
  IN http(k, [path |-> args.path, options |-> args.options,
              passed |-> {"params"}],
          w.method)

\* The client used by a caller that keeps its objects between calls.
CallerNext ==
  \/ \E k \in ClientIds, options \in ClientOptions : Constructor(k, options)
  \/ \E k \in ClientIds : CallerCallsHttp(k)
  \/ \E k \in ClientIds : CallerWithdraws(k)
  \/ \E call \in BagToSet(calls), response \in WrapperResponses :
       TransportResponds(call, response)
  \/ \E call \in BagToSet(calls), failure \in Failures :
       TransportFails(call, failure)
  \/ CallerResumes

CallerSpec == Init /\ [][CallerNext]_vars

\* The logger begins to throw at one of the log lines.
LoggerFails(line) ==
  /\ last = NoneSettled
  /\ logger = "works"
  /\ logger' = line
  /\ UNCHANGED <<AXIOS_DEFAULTS, clients, calls, last, drawn, objects>>

\* The client used while the logger may fail.
LoggerNext ==
  \/ \E k \in ClientIds, options \in ClientOptions : Constructor(k, options)
  \/ \E i \in 1..Len(LogLines) : LoggerFails(LogLines[i])
  \/ \E k \in ClientIds, args \in HttpArgs : http(k, args, User)
  \/ \E call \in BagToSet(calls), response \in Responses :
       TransportResponds(call, response)
  \/ \E call \in BagToSet(calls), failure \in Failures :
       TransportFails(call, failure)
  \/ CallerResumes

LoggerSpec == Init /\ [][LoggerNext]_vars

\* ------------------------------------------------------------------------
\* Properties of RestClient.http
\* ------------------------------------------------------------------------

\* A call has just settled.
Settled == last.kind = "settled"

\* The transport delivered a response to the call that has just settled.
Delivered == Settled /\ last.transport.kind = "response"

\* The call that has just settled failed with an error of the class.
FailedWith(class) ==
  /\ Settled
  /\ last.outcome.kind = "rejected"
  /\ last.outcome.error.class = class

\* The response delivered has status 200 and a body whose success is value.
Delivered200WithSuccess(value) ==
  /\ Delivered
  /\ last.transport.response.status = 200
  /\ Readable(last.transport.response.data)
  /\ Get(last.transport.response.data, "success") = value

\* C1: a call whose response has a status other than 200 fails with a
\* BittrexHttpError that carries that status code and status text, whatever
\* the body is (success = true, or null).
C1_NonOkStatusIsHttpFailure ==
  (Delivered /\ last.transport.response.status # 200) =>
     /\ FailedWith("BittrexHttpError")
     /\ last.outcome.error.statusCode = Num(last.transport.response.status)
     /\ last.outcome.error.bittexMessage = last.transport.response.statusText

\* C1 happens: a 201 response whose body says success = true was turned into
\* a BittrexHttpError with status code 201.
C1_Witness ==
  /\ Delivered
  /\ last.transport.response.status = 201
  /\ Get(last.transport.response.data, "success") = Bool(TRUE)
  /\ FailedWith("BittrexHttpError")
  /\ last.outcome.error.statusCode = Num(201)

\* C2: a call whose response has status 200 and success = false fails with a
\* BittrexRestApiError that carries the envelope's message, and the error's
\* string form contains that message.
C2_SuccessFalseIsApiFailure ==
  Delivered200WithSuccess(Bool(FALSE)) =>
     /\ FailedWith("BittrexRestApiError")
     /\ last.outcome.error.bittexMessage
          = Get(last.transport.response.data, "message")
     /\ Contains(ErrorToString(last.outcome.error),
                 ToStr(Get(last.transport.response.data, "message")))

\* C2 happens: the envelope {success: false, message: "something went
\* wrong"} was turned into a BittrexRestApiError.
C2_Witness ==
  /\ Delivered200WithSuccess(Bool(FALSE))
  /\ Get(last.transport.response.data, "message")
       = Str("something went wrong")
  /\ FailedWith("BittrexRestApiError")

\* C3: a call whose response has status 200 and success = true resolves with
\* the response as the transport delivered it: status, status text, headers
\* and body.
C3_SuccessResolvesWithResponse ==
  Delivered200WithSuccess(Bool(TRUE)) =>
     last.outcome = Resolved(last.transport.response)

\* C3 happens: a call resolved with a response that holds more than the
\* envelope.
C3_Witness ==
  /\ Delivered200WithSuccess(Bool(TRUE))
  /\ last.outcome.kind = "resolved"
  /\ last.outcome.value.status = 200
  /\ last.outcome.value.data = last.transport.response.data

\* C4: a call resolves only if the status is 200 and success is the boolean
\* true; any other value of success (false, missing, a non-boolean) is an
\* error.
C4_ResolvesOnlyOnSuccessTrue ==
  (Settled /\ last.outcome.kind = "resolved") =>
     Delivered200WithSuccess(Bool(TRUE))

\* C5: a call whose transport fails to complete fails with a BittrexHttpError
\* that wraps the failure: no status code, the stack of the transport's
\* error, and a string form that contains the transport's message; for a
\* timeout configured per call or per client, 'timeout of <T>ms exceeded'.
ConfiguredTimeouts(call) ==
  IF "timeout" \in DOMAIN call.args.options
  THEN {call.args.options.timeout}
  ELSE {AxiosOptionsOf(clients[call.client].options)[key] :
          key \in DOMAIN AxiosOptionsOf(clients[call.client].options)
                    \cap {"timeout"}}

C5_TransportFailureIsWrapped ==
  (Settled /\ last.transport.kind = "error") =>
     /\ FailedWith("BittrexHttpError")
     /\ last.outcome.error.statusCode = Undef
     /\ last.outcome.error.stack = last.transport.error.stack
     /\ Contains(ErrorToString(last.outcome.error),
                 last.transport.error.message)
     /\ last.transport.cause = "timeout" =>
          \A T \in ConfiguredTimeouts(last.call) :
            Contains(ErrorToString(last.outcome.error),
                     "timeout of " \o ToString(T) \o "ms exceeded")

\* C5 happens: a request of a client constructed with a timeout of 100 ms,
\* made without a timeout of its own, timed out.
C5_Witness ==
  /\ Settled
  /\ last.transport.kind = "error"
  /\ last.transport.cause = "timeout"
  /\ "timeout" \notin DOMAIN last.call.args.options
  /\ ConfiguredTimeouts(last.call) = {100}
  /\ FailedWith("BittrexHttpError")

\* C6: every call that settles resolves or fails with a BittrexHttpError or
\* a BittrexRestApiError, whatever the transport delivers.
C6_ThreeOutcomes ==
  Settled =>
     \/ last.outcome.kind = "resolved"
     \/ FailedWith("BittrexHttpError")
     \/ FailedWith("BittrexRestApiError")

\* C7: every error a call fails with is an instance of RestApiError.
C7_FailuresAreRestApiErrors ==
  (Settled /\ last.outcome.kind = "rejected") =>
     InstanceOf(last.outcome.error, "RestApiError")

\* C8: for a response with status s other than 200 and status text t, the
\* string form of the error is exactly
\* BittrexRestApiError: received status code <s> and text "<t>".
C8_HttpFailureString ==
  (Delivered /\ last.transport.response.status # 200) =>
     /\ last.outcome.kind = "rejected"
     /\ ErrorToString(last.outcome.error)
          = "BittrexRestApiError: received status code "
              \o ToString(last.transport.response.status)
              \o " and text \""
              \o ToStr(last.transport.response.statusText) \o "\""

\* C9: for a response with status 200, success = false and message m, the
\* string form of the error is exactly
\* BittrexRestApiError: body.success was false with message "<m>".
C9_ApiFailureString ==
  Delivered200WithSuccess(Bool(FALSE)) =>
     /\ last.outcome.kind = "rejected"
     /\ ErrorToString(last.outcome.error)
          = "BittrexRestApiError: body.success was false with message \""
              \o ToStr(Get(last.transport.response.data, "message")) \o "\""

\* The URLs the calls of the model transmit, and the query each carries as
\* the receiving side parses it.
TransmittedUrls ==
  { TransmittedUrl(HttpBuilt[clientOptions][args][bytes].requestOptions) :
      clientOptions \in ClientOptions, args \in HttpArgs \cup CallerHttpArgs,
      bytes \in RandomBytes }

QueryPairs == [u \in TransmittedUrls |-> parse(QueryOf(u))]

\* The nonce getNonce makes of each draw of random bytes.
NonceOf == [bytes \in RandomBytes |-> getNonce(bytes)]

\* The query of the URL has the key, and no value for it but value.
Carries(u, key, value) ==
  LET pairs == QueryPairs[u] IN
    /\ \E i \in 1..Len(pairs) : pairs[i].k = key
    /\ \A i \in 1..Len(pairs) : pairs[i].k = key => pairs[i].v = value

\* The request of the call carries the client's apikey and the call's nonce.
CarriesKeyAndNonce(call) ==
  LET u == TransmittedUrl(Config(call)) IN
    /\ Carries(u, "apikey", clients[call.client].options.apikey)
    /\ Carries(u, "nonce", NonceOf[RandomBuffer(call.draw)])

Dispatched == { call \in BagToSet(calls') : ~BagIn(call, calls) }

\* The nonces of the draws made so far.
NoncesDrawn == { NonceOf[RandomBuffer(n)] : n \in 1..drawn }

\* C11: the nonce of every request dispatched is a string of 24 characters
\* made in the call that dispatches it: it is the nonce of no earlier draw,
\* of no other call in flight and not of the call that settled last, on
\* whatever client those were made; and the request carries it.  (Calls
\* whose options name a url of their own transmit that url instead.)
C11_NonceIsFresh ==
  [][\A call \in Dispatched :
       /\ Len(Built(call).nonce) = 24
       /\ Built(call).nonce \notin NoncesDrawn
       /\ \A other \in BagToSet(calls') :
            other # call => Built(other).nonce # Built(call).nonce
       /\ "url" \notin DOMAIN call.args.options =>
            Carries(TransmittedUrl(Config(call)), "nonce", Built(call).nonce)
    ]_vars

\* C11 happens: two requests of two clients are in flight, and their nonces
\* differ.
C11_Witness ==
  \E c1, c2 \in BagToSet(calls) :
    /\ c1.client # c2.client
    /\ Built(c1).nonce # Built(c2).nonce
    /\ Len(Built(c1).nonce) = 24 /\ Len(Built(c2).nonce) = 24

\* C12: the request of every call carries an apisign header whose value is
\* the HMAC-SHA512, under the client's secret, of the URL the request is
\* sent to, whatever the options of the call and of the client are.
C12_SignatureOfTransmittedUrl ==
  \A call \in BagToSet(calls) :
    LET request == Request(Config(call)) IN
      /\ "apisign" \in DOMAIN request.headers
      /\ request.headers.apisign
           = getHmac(request.url, clients[call.client].options.apisecret)

\* C13: the transport turns no status into a failure of its own, whatever
\* the options of the call and of the client are: a response with a status
\* other than 200 makes the call fail with an error that carries the status.
C13_EveryStatusReachesTheExecutor ==
  Settled =>
    /\ last.transport.kind = "error" => last.transport.cause \in Failures
    /\ (Delivered /\ last.transport.response.status # 200) =>
         /\ FailedWith("BittrexHttpError")
         /\ last.outcome.error.statusCode
              = Num(last.transport.response.status)

\* C14: the request of every call is a GET over https without a body,
\* whatever the options of the call and of the client are.
C14_HttpsGetWithoutBody ==
  \A call \in BagToSet(calls) :
    LET request == Request(Config(call)) IN
      /\ request.method = "get"
      /\ request.body = NoBody
      /\ SubSeq(request.url, 1, 8) = "https://"

\* The default transport options, as stated: a timeout of 15000 ms.
DefaultOptions == [timeout |-> 15000]

\* The settings http makes for a request itself.
OwnSettings == {"url", "headers", "validateStatus"}

\* The value the three tiers give a setting: the call's, else the client's,
\* else the default.
TierValue(call, key) ==
  LET perCall     == Delete(call.args.options, "params")
      clientLevel == AxiosOptionsOf(clients[call.client].options)
  IN IF key \in DOMAIN perCall THEN perCall[key]
     ELSE IF key \in DOMAIN clientLevel THEN clientLevel[key]
     ELSE DefaultOptions[key]

\* The settings the three tiers decide for a call: those one of them names,
\* but for the ones http makes itself unless the call names them.
TierKeys(call) ==
  { key \in DOMAIN call.args.options
             \cup DOMAIN AxiosOptionsOf(clients[call.client].options)
             \cup DOMAIN DefaultOptions :
      /\ key # "params"
      /\ key \in OwnSettings => key \in DOMAIN call.args.options }

\* C15: each transport setting of a request has the value the call's options
\* give it, else the value the client's axiosOptions give it, else the
\* default (timeout 15000); the value of the higher tier is used whole.
C15_ThreeTierMerge ==
  \A call \in BagToSet(calls) :
    \A key \in TierKeys(call) :
      /\ key \in DOMAIN Config(call)
      /\ Config(call)[key] = TierValue(call, key)

\* A call made by a wrapper method has just settled, and the method with it.
WrapperSettled == Settled /\ last.call.caller # User

\* The result field of the envelope of the response delivered.
EnvelopeResult == Get(last.transport.response.data, "result")

\* The wrapper methods that are said to return the result field.
ResultWrappers ==
  { "getMarkets", "getCurrencies", "getTicker", "getMarketSummaries",
    "getOrderBook", "getMarketHistory", "getBalances", "getBalance",
    "getOrderHistory", "getDepositHistory", "getDepositAddress", "getOrder",
    "withdraw", "getWithdrawlHistory", "buyLimit", "sellLimit",
    "getOpenOrders" }

\* C16: when http resolves, each wrapper method other than getMarketSummary
\* and cancelOrder returns the result field of the envelope, as it is: an
\* object, an array or null.
C16_WrappersReturnResult ==
  (WrapperSettled /\ last.call.caller \in ResultWrappers
     /\ last.outcome.kind = "resolved")
    => last.returned = Resolved(EnvelopeResult)

\* C16 happens: getTicker has returned the ticker of the envelope, which is
\* not the response http resolved with.
C16_Witness ==
  /\ WrapperSettled
  /\ last.call.caller = "getTicker"
  /\ last.outcome.kind = "resolved"
  /\ EnvelopeResult = Ticker
  /\ last.returned = Resolved(Ticker)
  /\ last.returned # last.outcome

\* C17: when http resolves with a result that is an array of one element,
\* getMarketSummary returns that element, and no other wrapper method does.
C17_OnlyGetMarketSummaryUnwraps ==
  (WrapperSettled /\ last.outcome.kind = "resolved"
     /\ EnvelopeResult.t = "array" /\ Len(EnvelopeResult.a) = 1)
    => /\ last.call.caller = "getMarketSummary"
            => last.returned = Resolved(EnvelopeResult.a[1])
       /\ last.call.caller # "getMarketSummary"
            => last.returned # Resolved(EnvelopeResult.a[1])

\* C17 happens: getMarketSummary has returned the market summary that was
\* the one element of result.
C17_Witness ==
  /\ WrapperSettled
  /\ last.call.caller = "getMarketSummary"
  /\ EnvelopeResult = Arr(<<MarketSummary>>)
  /\ last.returned = Resolved(MarketSummary)

\* C18: when the call of http a wrapper method made fails, the method fails
\* with the same error and returns nothing; and http fails whenever the
\* transport fails, the status is not 200 or success is false.
C18_FailuresPropagateUnchanged ==
  WrapperSettled =>
    /\ last.outcome.kind = "rejected" => last.returned = last.outcome
    /\ (\/ last.transport.kind = "error"
        \/ last.transport.response.status # 200
        \/ Delivered200WithSuccess(Bool(FALSE)))
         => last.outcome.kind = "rejected"

\* C18 happens: getBalance has failed with the BittrexRestApiError its call
\* of http failed with.
C18_Witness ==
  /\ WrapperSettled
  /\ last.call.caller = "getBalance"
  /\ FailedWith("BittrexRestApiError")
  /\ last.returned = Rejected(last.outcome.error)

\* C19: the overrides a client is constructed with are its own: the module's
\* default settings stay as they were, and a client constructed without
\* axiosOptions has the default timeout of 15000, whatever clients were
\* constructed before or after it.
C19_OverridesAreScopedToTheClient ==
  /\ AXIOS_DEFAULTS = DefaultOptions
  /\ \A k \in ClientIds :
       (clients[k].constructed /\ "axiosOptions" \notin DOMAIN clients[k].options)
         => clients[k].axios.defaults.timeout = DefaultOptions.timeout

\* C20: a call is fire-once.  A request is dispatched only in the step in
\* which a call begins, one request by that one call; when the transport
\* completes or fails, in that step the call settles with a success or a
\* failure, its request is gone and none is dispatched (whether the
\* transport failed, the status was not 200 or success was false); a call
\* in flight is in flight once, and a call that has settled is not in
\* flight.
C20_FireOnce ==
  [][/\ \A call \in Dispatched :
          /\ Dispatched = {call}
          /\ drawn' = drawn + 1 /\ call.draw = drawn'
          /\ calls' = calls (+) SetToBag({call})
          /\ last = NoneSettled /\ last' = NoneSettled
     /\ (last' # last /\ last'.kind = "settled") =>
          /\ BagIn(last'.call, calls)
          /\ calls' = calls (-) SetToBag({last'.call})
          /\ ~BagIn(last'.call, calls')
          /\ last'.outcome.kind \in {"resolved", "rejected"}
          /\ drawn' = drawn
     /\ \A call \in BagToSet(calls') : CopiesIn(call, calls') = 1
    ]_vars

\* C20 happens: a call has failed because its transport did, a second call
\* made after it began is still in flight, and the failed one is not.
C20_Witness ==
  /\ Settled
  /\ last.transport.kind = "error"
  /\ last.outcome.kind = "rejected"
  /\ ~BagIn(last.call, calls)
  /\ \E call \in BagToSet(calls) : call.draw > last.call.draw

\* The arguments of a call as its caller made them: for a call made with
\* objects the caller keeps, those objects as the caller made them.
OwnArguments(call) ==
  IF "options" \in call.passed THEN Content(CallerArgs(CallerObjects))
  ELSE IF "params" \in call.passed
  THEN [path |-> call.args.path, options |-> [params |-> CallerObjects.params]]
  ELSE call.args

\* The request that the arguments of the call, the configuration of its
\* client and the nonce of the call make.
OwnRequest(call) ==
  Request(AxiosRequestConfig(
            clients[call.client].axios,
            HttpBuilt[clients[call.client].options][OwnArguments(call)]
                     [RandomBuffer(call.draw)].requestOptions))

\* The call that has just settled has the outcome that the response to its
\* own request, or the failure of that request, makes.
OwnOutcome ==
  /\ last.transport.kind \in {"response", "error"}
  /\ last.transport.kind = "response" =>
       last.transport = SettleResponse(last.call.config,
                                       last.transport.response)
  /\ last.transport.kind = "error" =>
       last.transport =
         IF last.transport.cause = "status"
         THEN SettleResponse(last.call.config, last.transport.response)
         ELSE SettleFailure(last.call.config, last.transport.cause)
  /\ last.outcome = httpAfterAwait(last.transport)

\* C21: calls in flight on one client at once do not interfere.  In every
\* state, whatever calls began and settled before it and in whatever order,
\* the request of each of two calls in flight on one client (url, caller
\* parameters, nonce, signature) is the one its own arguments, the
\* configuration of the client and its own nonce make; and a call that
\* settles while another is in flight on its client has the outcome the
\* response to its own request makes.
C21_ConcurrentCallsDoNotInterfere ==
  /\ \A c1, c2 \in BagToSet(calls) :
       (c1 # c2 /\ c1.client = c2.client) =>
          Request(Config(c1)) = OwnRequest(c1)
  /\ (Settled /\ \E other \in BagToSet(calls) :
                    other.client = last.call.client) => OwnOutcome

\* C22: a failure of the logger at any of its log lines does not change the
\* outcome of a call: as when logging works, the call settles when the
\* transport has settled its request, with the outcome that the response
\* or the transport's failure makes.
C22_LoggerFailureIsHarmless ==
  Settled =>
    /\ last.transport # Unsent
    /\ last.outcome = httpAfterAwait(last.transport)

\* The request of the call carries every parameter of the params object as
\* the caller made it.
CarriesCallerParams(call) ==
  \A i \in 1..Len(CallerParams) :
    Carries(TransmittedUrl(Config(call)), CallerParams[i].k,
            ToStr(CallerParams[i].v))

\* C23: http leaves the options object of its caller and the params object
\* in it as they are (no key removed, no apikey or nonce added), so that
\* every call made with the same options object transmits the caller's
\* parameters.
C23_CallerObjectsUnchanged ==
  /\ objects = CallerObjects
  /\ \A call \in BagToSet(calls) :
       call.passed # {} => CarriesCallerParams(call)

====
